---- MODULE Spec2Model ----
(***************************************************************************)
(* rtab: render the records of a CSV file as an aligned text table.        *)
(* Model of src/main.rs: Table::calculate_widths, Table::basic_format,     *)
(* Table::fancy_format and the control flow of main.                       *)
(*                                                                         *)
(* A string is a sequence of characters.  A character is a token; its      *)
(* UTF-8 length is ByteLen.  "a" is a one-byte letter, "e2" a two-byte     *)
(* letter (such as U+00E9), "SP" the space, "NL" the newline, and the      *)
(* box-drawing characters of fancy_format are three bytes each:            *)
(*   TL TJ TR  = top-left corner, top junction, top-right corner           *)
(*   ML MJ MR  = left, middle and right junction of a separator            *)
(*   BL BJ BR  = bottom-left corner, bottom junction, bottom-right corner  *)
(*   H V       = horizontal rule, vertical bar                             *)
(***************************************************************************)
EXTENDS Integers, Sequences, FiniteSets, TLC

\* ------------------------------------------------------------------ bounds
\* The largest number of fields (rows times columns) of a file.
MaxCells == 5
\* The largest value of --spaces.
MaxSpaces == 2

\* -------------------------------------------------------------- characters
BoxChars == {"TL", "TJ", "TR", "ML", "MJ", "MR", "BL", "BJ", "BR", "H", "V"}

\* UTF-8 length of a character.
ByteLen(c) == IF c = "e2" THEN 2 ELSE IF c \in BoxChars THEN 3 ELSE 1

\* char::is_whitespace: the space and the newline are whitespace.
is_whitespace(c) == c \in {"SP", "NL"}

\* Fields as the CSV reader yields them (Trim::All: no surrounding blanks).
Fields == { <<>>, <<"a">>, <<"e2">> }

Max(a, b) == IF a >= b THEN a ELSE b
Min(a, b) == IF a <= b THEN a ELSE b

\* str::len: the length of a string in BYTES.
RECURSIVE BytesUpTo(_, _)
BytesUpTo(s, k) == IF k = 0 THEN 0 ELSE ByteLen(s[k]) + BytesUpTo(s, k - 1)

str_len(s) == BytesUpTo(s, Len(s))

\* str.chars().count(): the length of a string in characters.
char_count(s) == Len(s)

Repeat(c, n) == [k \in 1..n |-> c]

\* "{:width$}" applied to a string: left-justified, filled with spaces up to
\* width CHARACTERS, never truncated.
Pad(s, width) ==
    IF char_count(s) >= width THEN s
    ELSE s \o Repeat("SP", width - char_count(s))

\* ------------------------------------------------------- calculate_widths
\* One step of the fold: acc.iter().zip(r.iter()).map(max).collect().
\* zip stops at the shorter of the two sequences.
ZipMax(acc, r) ==
    [k \in 1..Min(Len(acc), Len(r)) |-> Max(acc[k], str_len(r[k]))]

RECURSIVE FoldWidths(_, _)
FoldWidths(acc, records) ==
    IF records = <<>> THEN acc
    ELSE FoldWidths(ZipMax(acc, Head(records)), Tail(records))

calculate_widths(records) ==
    LET len == IF records = <<>> THEN 0 ELSE Len(records[1])
    IN  FoldWidths([k \in 1..len |-> 0], records)

\* ----------------------------------------------------------- basic_format
\* Byte offset at which the k-th character of s starts.
ByteOffset(s, k) == BytesUpTo(s, k - 1)

\* output.rfind(|c| !char::is_whitespace(c)): byte index of the last
\* non-whitespace character, -1 standing for None.
rfind_non_ws(s) ==
    LET hits == {k \in 1..Len(s) : ~is_whitespace(s[k])}
    IN  IF hits = {} THEN -1
        ELSE ByteOffset(s, CHOOSE k \in hits : \A j \in hits : j <= k)

is_char_boundary(s, n) ==
    \/ n = str_len(s)
    \/ \E k \in 1..Len(s) : ByteOffset(s, k) = n

\* String::truncate(new_len): no effect when new_len exceeds the length,
\* panics when new_len is not on a character boundary.
truncate(s, new_len) ==
    IF new_len > str_len(s) THEN [ok |-> TRUE, s |-> s]
    ELSE IF ~is_char_boundary(s, new_len) THEN [ok |-> FALSE, s |-> s]
    ELSE [ok |-> TRUE,
          s  |-> SubSeq(s, 1, Cardinality({k \in 1..Len(s) : ByteOffset(s, k) < new_len}))]

\* The inner loop of basic_format: every field padded to widths[i] + spaces.
RECURSIVE WriteFields(_, _, _, _)
WriteFields(record, widths, spaces, i) ==
    IF i > Len(record) THEN <<>>
    ELSE Pad(record[i], widths[i] + spaces) \o WriteFields(record, widths, spaces, i + 1)

\* The trim of basic_format, applied to the whole buffer.
TrimOutput(output) ==
    LET found == rfind_non_ws(output)
        len   == (IF found = -1 THEN 0 ELSE found) + 1
    IN  truncate(output, len)

RECURSIVE BasicLoop(_, _, _, _)
BasicLoop(output, records, widths, spaces) ==
    IF records = <<>> THEN [status |-> "ok", out |-> output]
    ELSE IF Len(Head(records)) > Len(widths) THEN [status |-> "panic", out |-> <<>>]
    ELSE LET t == TrimOutput(output \o WriteFields(Head(records), widths, spaces, 1))
         IN  IF ~t.ok THEN [status |-> "panic", out |-> <<>>]
             ELSE BasicLoop(t.s \o <<"NL">>, Tail(records), widths, spaces)

basic_format(table, spaces) == BasicLoop(<<>>, table.records, table.widths, spaces)

\* ----------------------------------------------------------- fancy_format
\* A border or separator line: per column a junction and a rule of
\* width + spaces * 2 characters, then the closing junction and a newline.
\* Mutant of BorderCols: the rule is padded on one side only.
RECURSIVE BorderCols_OneSide(_, _, _, _, _)
BorderCols_OneSide(first, other, widths, spaces, i) ==
    IF i > Len(widths) THEN <<>>
    ELSE <<IF i = 1 THEN first ELSE other>> \o Repeat("H", widths[i] + spaces)
         \o BorderCols_OneSide(first, other, widths, spaces, i + 1)

RECURSIVE BorderCols(_, _, _, _, _)
BorderCols(first, other, widths, spaces, i) ==
    IF i > Len(widths) THEN <<>>
    ELSE <<IF i = 1 THEN first ELSE other>> \o Repeat("H", widths[i] + spaces * 2)
         \o BorderCols(first, other, widths, spaces, i + 1)

BorderLine(first, other, last, widths, spaces) ==
    BorderCols(first, other, widths, spaces, 1) \o <<last, "NL">>

\* Mutant of SeparatorBefore: headers takes precedence over separators.
SeparatorBefore_HeadersFirst(i, headers, separators) ==
    (headers /\ i = 1) \/ (~headers /\ separators /\ i > 0)

\* Mutant of SeparatorBefore: the guard on the first row is missing.
SeparatorBefore_NoRowGuard(i, headers, separators) ==
    separators \/ (headers /\ i = 1)

\* The condition of the separator before row i (0-based).
SeparatorBefore(i, headers, separators) ==
    (separators /\ i > 0) \/ (headers /\ i = 1)

\* A data line: per field a bar, spaces blanks, the field padded to
\* widths[j], spaces blanks; then the closing bar and a newline.
RECURSIVE DataCols(_, _, _, _)
DataCols(record, widths, spaces, j) ==
    IF j > Len(record) THEN <<>>
    ELSE <<"V">> \o Repeat("SP", spaces) \o Pad(record[j], widths[j]) \o Repeat("SP", spaces)
         \o DataCols(record, widths, spaces, j + 1)

DataLine(record, widths, spaces) == DataCols(record, widths, spaces, 1) \o <<"V", "NL">>

\* Mutant of FancyLoop: the loop stops one row early.
RECURSIVE FancyLoop_StopsEarly(_, _, _, _, _, _)
FancyLoop_StopsEarly(records, i, widths, headers, separators, spaces) ==
    IF i + 1 >= Len(records) THEN <<>>
    ELSE (IF SeparatorBefore(i, headers, separators)
          THEN BorderLine("ML", "MJ", "MR", widths, spaces) ELSE <<>>)
         \o DataLine(records[i + 1], widths, spaces)
         \o FancyLoop_StopsEarly(records, i + 1, widths, headers, separators, spaces)

RECURSIVE FancyLoop(_, _, _, _, _, _)
FancyLoop(records, i, widths, headers, separators, spaces) ==
    IF i >= Len(records) THEN <<>>
    ELSE (IF SeparatorBefore(i, headers, separators)
          THEN BorderLine("ML", "MJ", "MR", widths, spaces) ELSE <<>>)
         \o DataLine(records[i + 1], widths, spaces)
         \o FancyLoop(records, i + 1, widths, headers, separators, spaces)

fancy_format(table, headers, separators, spaces) ==
    IF \E r \in 1..Len(table.records) : Len(table.records[r]) > Len(table.widths)
    THEN [status |-> "panic", out |-> <<>>]
    ELSE [status |-> "ok",
          out |-> BorderLine("TL", "TJ", "TR", table.widths, spaces)
                  \o FancyLoop(table.records, 0, table.widths, headers, separators, spaces)
                  \o BorderLine("BL", "BJ", "BR", table.widths, spaces)]

\* ------------------------------------------------------------------ inputs
Rows(cols) == [1..cols -> Fields]

\* Record sequences in which every record has the same number of fields
\* (at least one: the reader yields no record without a field).
RectRecords ==
    {<<>>} \cup UNION {[1..n -> Rows(c)] : <<n, c>> \in
                          {p \in (1..MaxCells) \X (1..MaxCells) : p[1] * p[2] <= MaxCells}}

\* Record sequences whose records may differ in length, of at most cells
\* fields in all.
RECURSIVE RaggedUpTo(_)
RaggedUpTo(cells) ==
    {<<>>} \cup UNION {{<<r>> \o rest : r \in Rows(c), rest \in RaggedUpTo(cells - c)} :
                          c \in 1..cells}

RaggedRecords == RaggedUpTo(MaxCells)

NoTable == [records |-> <<>>, widths |-> <<>>]
NoResult == [status |-> "none", out |-> <<>>]

\* ------------------------------------------------------------------- state
VARIABLES
    pc,          \* position in main
    file,        \* what parse_records yields for the path: error or records
    style, headers, separators, spaces,     \* command-line arguments
    table,       \* the Table built by from_path
    output,      \* the result of the formatter
    stdout,      \* the strings printed to standard output, in order
    stderr,      \* the diagnostics printed to the error stream, in order
    exit         \* exit status, -1 while running

vars == <<pc, file, style, headers, separators, spaces, table, output, stdout, stderr, exit>>

args == <<file, style, headers, separators, spaces>>

Init ==
    /\ pc = "start"
    /\ file \in {[ok |-> FALSE, records |-> <<>>]}
                \cup {[ok |-> TRUE, records |-> rs] : rs \in RectRecords}
    /\ style \in {"basic", "fancy"}
    /\ headers \in BOOLEAN
    /\ separators \in BOOLEAN
    /\ spaces \in 0..MaxSpaces
    /\ table = NoTable
    /\ output = NoResult
    /\ stdout = <<>>
    /\ stderr = <<>>
    /\ exit = -1

\* Table::from_path succeeds: the records are parsed and the widths computed.
FromPathOk ==
    /\ pc = "start"
    /\ file.ok
    /\ table' = [records |-> file.records, widths |-> calculate_widths(file.records)]
    /\ pc' = "parsed"
    /\ UNCHANGED <<args, output, stdout, stderr, exit>>

\* Table::from_path fails: diagnostic, exit status 1.
FromPathErr ==
    /\ pc = "start"
    /\ ~file.ok
    /\ stderr' = Append(stderr, "Error parsing file")
    /\ exit' = 1
    /\ pc' = "exit"
    /\ UNCHANGED <<args, table, output, stdout>>

\* style "basic": basic_format runs to its end or panics in truncate.
BasicFormat ==
    /\ pc = "parsed"
    /\ style = "basic"
    /\ LET res == basic_format(table, spaces)
       IN  IF res.status = "panic"
           THEN /\ output' = res
                /\ stderr' = Append(stderr, "panic")
                /\ exit' = 101
                /\ pc' = "exit"
           ELSE /\ output' = res
                /\ pc' = "formatted"
                /\ UNCHANGED <<stderr, exit>>
    /\ UNCHANGED <<args, table, stdout>>

\* style "fancy".
FancyFormat ==
    /\ pc = "parsed"
    /\ style = "fancy"
    /\ LET res == fancy_format(table, headers, separators, spaces)
       IN  IF res.status = "panic"
           THEN /\ output' = res
                /\ stderr' = Append(stderr, "panic")
                /\ exit' = 101
                /\ pc' = "exit"
           ELSE /\ output' = res
                /\ pc' = "formatted"
                /\ UNCHANGED <<stderr, exit>>
    /\ UNCHANGED <<args, table, stdout>>

\* A write!(..)? of the formatter returns Err: the formatter returns the
\* error and the buffer built so far is dropped.
FormatFault ==
    /\ pc = "parsed"
    /\ output' = [status |-> "err", out |-> <<>>]
    /\ pc' = "formatted"
    /\ UNCHANGED <<args, table, stdout, stderr, exit>>

\* Mutant of PrintOutput: the result is printed without looking at it.
PrintOutput_Unchecked ==
    /\ pc = "formatted"
    /\ stdout' = Append(stdout, output.out)
    /\ exit' = 0
    /\ pc' = "exit"
    /\ UNCHANGED <<args, table, output, stderr>>

\* match output { Ok(output) => print!("{}", output), .. }
PrintOutput ==
    /\ pc = "formatted"
    /\ output.status = "ok"
    /\ stdout' = Append(stdout, output.out)
    /\ exit' = 0
    /\ pc' = "exit"
    /\ UNCHANGED <<args, table, output, stderr>>

\* match output { .. Err(e) => { eprintln!(..); process::exit(1) } }
FormatErrExit ==
    /\ pc = "formatted"
    /\ output.status = "err"
    /\ stderr' = Append(stderr, "Error formatting output")
    /\ exit' = 1
    /\ pc' = "exit"
    /\ UNCHANGED <<args, table, output, stdout>>

Next ==
    \/ FromPathOk
    \/ FromPathErr
    \/ BasicFormat
    \/ FancyFormat
    \/ FormatFault
    \/ PrintOutput
    \/ FormatErrExit

Spec == Init /\ [][Next]_vars

\* ---------------------------------------- calculate_widths on any records
InitWidths ==
    /\ pc = "widths_call"
    /\ file \in {[ok |-> TRUE, records |-> rs] : rs \in RaggedRecords}
    /\ style = "basic"
    /\ headers = FALSE
    /\ separators = FALSE
    /\ spaces = 1
    /\ table = NoTable
    /\ output = NoResult
    /\ stdout = <<>>
    /\ stderr = <<>>
    /\ exit = -1

CalculateWidths ==
    /\ pc = "widths_call"
    /\ table' = [records |-> file.records, widths |-> calculate_widths(file.records)]
    /\ pc' = "widths_done"
    /\ UNCHANGED <<args, output, stdout, stderr, exit>>

NextWidths == CalculateWidths

SpecWidths == InitWidths /\ [][NextWidths]_vars

\* ------------------------------------------------- reading a built string
\* The newline-terminated lines of a string, each without its newline.
NewlineAt(s) == {k \in 1..Len(s) : s[k] = "NL"}

Lines(s) ==
    LET nl == NewlineAt(s)
        pos(i) == IF i = 0 THEN 0
                  ELSE CHOOSE k \in nl : Cardinality({j \in nl : j < k}) = i - 1
    IN  [i \in 1..Cardinality(nl) |-> SubSeq(s, pos(i - 1) + 1, pos(i) - 1)]

\* TRUE when the string is empty or ends with a newline.
NewlineTerminated(s) == s = <<>> \/ s[Len(s)] = "NL"

IsTop(l) ==
    /\ l # <<>> /\ l[Len(l)] = "TR"
    /\ \A k \in 1..(Len(l) - 1) : l[k] \in {"TL", "TJ", "H"}
IsSeparator(l) ==
    /\ l # <<>> /\ l[Len(l)] = "MR"
    /\ \A k \in 1..(Len(l) - 1) : l[k] \in {"ML", "MJ", "H"}
IsBottom(l) ==
    /\ l # <<>> /\ l[Len(l)] = "BR"
    /\ \A k \in 1..(Len(l) - 1) : l[k] \in {"BL", "BJ", "H"}
IsData(l) ==
    /\ l # <<>> /\ l[Len(l)] = "V"
    /\ \A k \in 1..Len(l) : l[k] \notin (BoxChars \ {"V"})

TopAt(ls) == {k \in 1..Len(ls) : IsTop(ls[k])}
SeparatorAt(ls) == {k \in 1..Len(ls) : IsSeparator(ls[k])}
BottomAt(ls) == {k \in 1..Len(ls) : IsBottom(ls[k])}
DataAt(ls) == {k \in 1..Len(ls) : IsData(ls[k])}

\* fancy_format has returned Ok.
FancyDone == style = "fancy" /\ output.status = "ok"
\* basic_format has returned Ok.
BasicDone == style = "basic" /\ output.status = "ok"

RecordCount == Len(table.records)

\* ---------------------------------------------------------------- claims
\* C1 (as stated): the number of separator lines of fancy_format is 1 if
\* headers and there are at least 2 records, otherwise record_count - 1 if
\* separators (0 when there is no record), otherwise 0.
C1_AsStated ==
    FancyDone =>
        Cardinality(SeparatorAt(Lines(output.out))) =
            IF headers /\ RecordCount >= 2 THEN 1
            ELSE IF separators THEN Max(RecordCount - 1, 0)
            ELSE 0

\* C1 (amended): the number of separator lines of fancy_format is
\* record_count - 1 if separators and there is at least one record,
\* otherwise 1 if headers and there are at least 2 records, otherwise 0:
\* separators wins over headers.
C1_SeparatorCount ==
    FancyDone =>
        Cardinality(SeparatorAt(Lines(output.out))) =
            IF separators /\ RecordCount >= 1 THEN RecordCount - 1
            ELSE IF headers /\ RecordCount >= 2 THEN 1
            ELSE 0

C1_Witness ==
    /\ FancyDone /\ headers /\ separators /\ RecordCount = 3
    /\ Cardinality(SeparatorAt(Lines(output.out))) = 2

\* C6: the output of fancy_format begins with exactly one top-border line,
\* ends with exactly one bottom-border line, has as many data lines as
\* records, and with zero records is the top border followed by the bottom
\* border and nothing else.
C6_Borders ==
    FancyDone =>
        LET ls == Lines(output.out)
        IN  /\ NewlineTerminated(output.out)
            /\ Len(ls) >= 2
            /\ TopAt(ls) = {1}
            /\ BottomAt(ls) = {Len(ls)}
            /\ Cardinality(DataAt(ls)) = RecordCount
            /\ RecordCount = 0 => output.out = <<"TR", "NL", "BR", "NL">>

C6_Witness ==
    /\ FancyDone /\ RecordCount = 3
    /\ Cardinality(DataAt(Lines(output.out))) = 3
    /\ TopAt(Lines(output.out)) = {1}

C6_WitnessEmpty ==
    FancyDone /\ RecordCount = 0 /\ output.out = <<"TR", "NL", "BR", "NL">>

\* C8: in fancy_format a separator line stands immediately before the data
\* line of row i (0-based) iff i > 0 and (separators, or headers and i = 1);
\* every separator line is immediately followed by a data line, so there is
\* none before row 0 and none after the last row.
C8_SeparatorPlacement ==
    FancyDone =>
        LET ls == Lines(output.out)
            data == DataAt(ls)
        IN  /\ \A k \in data :
                   LET i == Cardinality({j \in data : j < k})
                   IN  (k > 1 /\ IsSeparator(ls[k - 1]))
                           <=> (i > 0 /\ (separators \/ (headers /\ i = 1)))
            /\ \A k \in SeparatorAt(ls) : k < Len(ls) /\ IsData(ls[k + 1])

C8_Witness ==
    /\ FancyDone /\ headers /\ ~separators /\ RecordCount = 3
    /\ LET ls == Lines(output.out)
       IN  /\ Len(ls) = 6
           /\ SeparatorAt(ls) = {3}
           /\ DataAt(ls) = {2, 4, 5}

\* The positions of the junctions and bars of a line.
Delimiters(l) == {k \in 1..Len(l) : l[k] \in BoxChars \ {"H"}}

\* C9: for non-empty records, every line of fancy_format is a border, a
\* separator or a data line with one segment per column; the segment of
\* column i has exactly widths[i] + 2 * spaces characters between its
\* delimiters (rule characters in a border or separator, the padded cell in
\* a data line), so all lines have the same character count.
C9_Alignment ==
    (FancyDone /\ RecordCount >= 1) =>
        LET ls == Lines(output.out)
            w  == table.widths
        IN  \A k \in 1..Len(ls) :
                LET l == ls[k]
                    d == Delimiters(l)
                IN  /\ IsTop(l) \/ IsSeparator(l) \/ IsBottom(l) \/ IsData(l)
                    /\ Cardinality(d) = Len(w) + 1
                    /\ 1 \in d /\ Len(l) \in d
                    /\ \A p \in d :
                           LET c == Cardinality({q \in d : q < p}) + 1
                           IN  c <= Len(w) =>
                                   /\ p + w[c] + 2 * spaces + 1 \in d
                                   /\ \A q \in (p + 1)..(p + w[c] + 2 * spaces) : q \notin d
                    /\ Len(l) = Len(ls[1])

C9_Witness ==
    /\ FancyDone /\ RecordCount = 2 /\ spaces = 1 /\ headers
    /\ table.widths = <<1, 2>>
    /\ table.records[1] = << <<"a">>, <<"e2">> >>
    /\ Lines(output.out)[1] = <<"TL", "H", "H", "H", "TJ", "H", "H", "H", "H", "TR">>
    /\ Lines(output.out)[2] = <<"V", "SP", "a", "SP", "V", "SP", "e2", "SP", "SP", "V">>
    /\ Len(Lines(output.out)) = 5

\* A string without its trailing whitespace characters.
StripTrailing(s) ==
    LET hits == {k \in 1..Len(s) : ~is_whitespace(s[k])}
    IN  IF hits = {} THEN <<>>
        ELSE SubSeq(s, 1, CHOOSE k \in hits : \A j \in hits : j <= k)

\* The row of a record as basic_format pads it, before the trim.
PaddedRow(record) == WriteFields(record, table.widths, spaces, 1)

\* C2 (as stated): the output of basic_format has exactly one
\* newline-terminated line per record, and the k-th line is the rendering
\* of the k-th record (compared up to trailing whitespace); no line of an
\* earlier row is removed or merged by a later row.
C2_OneLinePerRecord ==
    BasicDone =>
        LET ls == Lines(output.out)
        IN  /\ NewlineTerminated(output.out)
            /\ Len(ls) = RecordCount
            /\ \A k \in 1..RecordCount :
                   StripTrailing(ls[k]) = StripTrailing(PaddedRow(table.records[k]))

\* C3 (as stated): no line of the output of basic_format ends with a
\* whitespace character.
C3_NoTrailingWhitespace ==
    BasicDone =>
        \A k \in 1..Len(Lines(output.out)) :
            LET l == Lines(output.out)[k]
            IN  l = <<>> \/ ~is_whitespace(l[Len(l)])

\* Every record has at least one non-empty field.
NoBlankRecord ==
    \A k \in 1..RecordCount : \E i \in 1..Len(table.records[k]) : table.records[k][i] # <<>>

\* C10 (as stated): when every record has a non-empty field, basic_format
\* completes without aborting and each line is the record's fields, each
\* padded to widths[i] + spaces characters, with only the trailing
\* whitespace removed.
C10_TrimIsSafe ==
    (style = "basic" /\ output.status \in {"ok", "panic"} /\ NoBlankRecord) =>
        /\ output.status = "ok"
        /\ NewlineTerminated(output.out)
        /\ Len(Lines(output.out)) = RecordCount
        /\ \A k \in 1..RecordCount :
               Lines(output.out)[k] = StripTrailing(PaddedRow(table.records[k]))

\* The largest character count of the fields of column i.
MaxCharsInColumn(records, i) ==
    LET counts == {char_count(records[k][i]) : k \in 1..Len(records)}
    IN  CHOOSE m \in counts : \A c \in counts : c <= m

\* C5 (as stated): for non-empty rectangular records, widths[i] is the
\* maximum length in CHARACTERS of the fields of column i.
C5_WidthIsMaxChars ==
    RecordCount >= 1 =>
        /\ Len(table.widths) = Len(table.records[1])
        /\ \A i \in 1..Len(table.widths) :
               table.widths[i] = MaxCharsInColumn(table.records, i)

C7_NoPartialOutput ==
    /\ stdout # <<>> => (file.ok /\ output.status = "ok" /\ stdout = <<output.out>>)
    /\ ~file.ok =>
           /\ table = NoTable /\ output = NoResult /\ stdout = <<>>
           /\ pc = "exit" => (exit = 1 /\ stderr = <<"Error parsing file">>)
    /\ output.status = "err" =>
           /\ stdout = <<>>
           /\ pc = "exit" => (exit = 1 /\ stderr = <<"Error formatting output">>)
    /\ (pc = "exit" /\ output.status = "ok") =>
           (exit = 0 /\ stdout = <<output.out>> /\ stderr = <<>>)
    /\ exit = 0 => (pc = "exit" /\ file.ok /\ output.status = "ok")
    /\ exit = 1 => (pc = "exit" /\ stderr # <<>> /\ (~file.ok \/ output.status = "err"))

C7_Witness ==
    /\ pc = "exit" /\ ~file.ok /\ exit = 1
    /\ stdout = <<>> /\ stderr = <<"Error parsing file">> /\ output = NoResult

C7_WitnessFormatError ==
    /\ pc = "exit" /\ output.status = "err" /\ exit = 1
    /\ stdout = <<>> /\ stderr = <<"Error formatting output">>

C7_WitnessSuccess ==
    /\ pc = "exit" /\ exit = 0 /\ output.status = "ok"
    /\ output.out # <<>> /\ stdout = <<output.out>> /\ stderr = <<>>

TypeOK ==
    /\ pc \in {"start", "parsed", "formatted", "exit", "widths_call", "widths_done"}
    /\ exit \in {-1, 0, 1, 101}
    /\ output.status \in {"none", "ok", "err", "panic"}
====
